---- MODULE Spec2Model ----
(***************************************************************************)
(* A model of quant-train's LLM pre-training script (llm_pretrain.py) and   *)
(* of train_utils.quantize_model:                                          *)
(*   - the initialisation of __main__ (lines 142-182);                     *)
(*   - the training loop of __main__ (lines 184-253): gradient             *)
(*     accumulation, LR update, logging, optimizer step, checkpoint,       *)
(*     periodic evaluation, closing the logging run;                       *)
(*   - LRSchedule (lines 75-98);                                           *)
(*   - TokenDataset / EvalTokenDataset, the batch streamers (lines 23-72); *)
(*   - quantize_model (train_utils.py, lines 19-34).                       *)
(*                                                                         *)
(* Spec       : the training loop, from line 184 on, for every small       *)
(*              configuration that passes the initialisation.              *)
(* SpecKill   : the training loop plus the process being terminated from   *)
(*              outside at any point.                                      *)
(* SpecLog    : the training loop of a run one step longer than the log    *)
(*              interval.                                                  *)
(* SpecStream : one consumer iterating a TokenDataset / EvalTokenDataset.  *)
(* FairStream : SpecStream with the fairness of a running generator whose  *)
(*              random draws take every value again and again.             *)
(* SpecLR     : an LRSchedule is constructed and its rate read at every    *)
(*              step.                                                      *)
(* SpecMain   : the initialisation, from the parsed command line to the    *)
(*              entry of the training loop.                                *)
(* SpecQuant  : one call of quantize_model.                                *)
(*                                                                         *)
(* Floats are modelled in fixed point: a learning rate is an integer       *)
(* number of 1e-7 units, a progress or cosine value an integer number of   *)
(* 1/Scale units. Schedule fractions are quarters (k/4 is exact in binary  *)
(* floating point, so int(n_steps * warmup) is floor(n_steps * k / 4)).    *)
(***************************************************************************)
EXTENDS Integers, Sequences, FiniteSets, TLC

\* ---------------------------------------------------------------- bounds
MaxSteps == 3        \* n_steps ranges over 0..MaxSteps
MaxGA == 2           \* gradient_accumulation ranges over 1..MaxGA
MaxInterval == 2     \* ckpt_interval, val_interval range up to MaxInterval
MaxEvalBatches == 2  \* batches one evaluation pass yields: 0..MaxEvalBatches
MaxGroups == 2       \* optimizer parameter groups: 1..MaxGroups
MaxShards == 2       \* *.bin files in a dataset directory: 0..MaxShards
MaxSlices == 2       \* a shard holds up to MaxSlices * tokens_per_batch + 1 tokens

\* ------------------------------------------------------ program constants
DefaultLr == 3000    \* --lr default 3e-4, in units of 1e-7
LogInterval == 50    \* log_interval

Scale == 10 ^ 4      \* fixed-point denominator of progress and cosine
Quarters == 4        \* denominator of the schedule fractions

VARIABLES
    args,       \* the parsed command line (constant during a run)
    pc,         \* position of the main thread in the script
    step,       \* the global step counter
    micro,      \* micro-steps done in the current accumulating phase
    pulls,      \* batches pulled from the training stream so far
    grad,       \* the gradient buffer of the model parameters
    model,      \* the model parameters, as the sequence of updates applied
    optim,      \* optimizer: [steps, lr (one per parameter group)]
    mode,       \* "train" / "eval": the module's training flag
    file,       \* the file at save_dir / "last.pth"
    evalSt,     \* the running evaluation: [n_batches]
    run,        \* the logging run: [closed (count), logs]
    hist,       \* history: what the claims speak about
    disk,       \* the shard directory: [files (glob order), size (tokens per file)]
    ds,         \* the TokenDataset object: [shards, batch_size, seq_len, variant]
    sPc,        \* position of the dataset's generator
    order,      \* shard_indices still to visit in this cycle
    view,       \* the memory-mapped shard being sliced: [shard, offset, len]
    slices,     \* slice_indices still to yield from the view
    batch,      \* the batch in the consumer's hands (none once the generator resumes)
    sHist,      \* history of the stream: what the claims speak about
    lrq,        \* an LRSchedule under construction and the learning rates it returns
    ini,        \* the initialisation of __main__: [pc, args, built, error]
    qm          \* a call of quantize_model: [pc, name, orig, layers, calls]

loopVars == <<args, pc, step, micro, pulls, grad, model, optim, mode, file, evalSt, run, hist>>

streamVars == <<disk, ds, sPc, order, view, slices, batch, sHist>>

auxVars == <<lrq, ini, qm>>

\* what an action of the training loop leaves alone
notLoop == <<streamVars, auxVars>>

\* what an action of a dataset leaves alone
notStream == <<loopVars, auxVars>>

\* ------------------------------------------------------------- LRSchedule
NoSchedule == [on |-> FALSE, lr |-> 0, t1 |-> 0, t2 |-> 0, t3 |-> 0, decay_type |-> "linear"]

\* the boundary t1 rounded up instead of down
LRSchedule_RoundUp(lr, n_steps, warmupQ, decayQ, decay_type) ==
    [on |-> TRUE, lr |-> lr,
     t1 |-> (n_steps * warmupQ + Quarters - 1) \div Quarters,
     t2 |-> (n_steps * (Quarters - decayQ)) \div Quarters,
     t3 |-> n_steps,
     decay_type |-> decay_type]

\* LRSchedule.__init__: t1 = int(n_steps * warmup), t2 = int(n_steps * (1 - decay))
LRSchedule(lr, n_steps, warmupQ, decayQ, decay_type) ==
    [on |-> TRUE, lr |-> lr,
     t1 |-> (n_steps * warmupQ) \div Quarters,
     t2 |-> (n_steps * (Quarters - decayQ)) \div Quarters,
     t3 |-> n_steps,
     decay_type |-> decay_type]

\* the two asserts of LRSchedule.__init__
ScheduleValid(s) == s.t1 <= s.t2 /\ s.decay_type \in {"linear", "cosine"}

\* cos(x) for x in [0, pi/2], x and the result in 1/Scale units (Taylor series)
CosSmall(x) ==
    LET x2 == (x * x) \div Scale
        t1 == (x2 \div 2)
        t2 == (t1 * x2) \div (12 * Scale)
        t3 == (t2 * x2) \div (30 * Scale)
        t4 == (t3 * x2) \div (56 * Scale)
        t5 == (t4 * x2) \div (90 * Scale)
    IN  Scale - t1 + t2 - t3 + t4 - t5

PiScaled == 31416

\* the cosine with its sign turned: the decay rises from 0 to the base rate
CosPi_Rising(progress) ==
    IF 2 * progress <= Scale
    THEN 0 - CosSmall((progress * PiScaled) \div Scale)
    ELSE CosSmall(((Scale - progress) * PiScaled) \div Scale)

\* math.cos(progress * math.pi) for progress in [0, 1], in 1/Scale units
CosPi(progress) ==
    IF 2 * progress <= Scale
    THEN CosSmall((progress * PiScaled) \div Scale)
    ELSE 0 - CosSmall(((Scale - progress) * PiScaled) \div Scale)

\* the warmup branch taken up to and including step t1
LrPhase_WarmupInclusive(s, st) ==
    IF st <= s.t1 THEN "warmup"
    ELSE IF st < s.t2 THEN "constant"
    ELSE IF st < s.t3 THEN "decay"
    ELSE "end"

\* LRSchedule.get_lr, lines 88-92: the branch taken at a step
LrPhase(s, st) ==
    IF st < s.t1 THEN "warmup"
    ELSE IF st < s.t2 THEN "constant"
    ELSE IF st < s.t3 THEN "decay"
    ELSE "end"

\* LRSchedule.get_lr, lines 89 and 93: the number the branch divides by
\* (1 where it does not divide)
LrDivisor(s, st) ==
    IF LrPhase(s, st) = "warmup" THEN s.t1
    ELSE IF LrPhase(s, st) = "decay" THEN s.t3 - s.t2
    ELSE 1

\* get_lr without its final return 0.0: the rate stays at the base rate
get_lr_NoEnd(s, st) ==
    IF LrPhase(s, st) = "warmup" THEN (s.lr * st) \div s.t1
    ELSE IF LrPhase(s, st) = "constant" THEN s.lr
    ELSE IF LrPhase(s, st) = "decay" THEN
        LET progress == ((st - s.t2) * Scale) \div (s.t3 - s.t2)
        IN  IF s.decay_type = "linear"
            THEN (s.lr * (Scale - progress)) \div Scale
            ELSE (s.lr * (Scale + CosPi(progress))) \div (2 * Scale)
    ELSE s.lr

\* LRSchedule.get_lr
get_lr(s, st) ==
    IF LrPhase(s, st) = "warmup" THEN (s.lr * st) \div s.t1
    ELSE IF LrPhase(s, st) = "constant" THEN s.lr
    ELSE IF LrPhase(s, st) = "decay" THEN
        LET progress == ((st - s.t2) * Scale) \div (s.t3 - s.t2)
        IN  IF s.decay_type = "linear"
            THEN (s.lr * (Scale - progress)) \div Scale
            ELSE (s.lr * (Scale + CosPi(progress))) \div (2 * Scale)
    ELSE 0

\* ---------------------------------------------------------- training loop
\* The configurations that reach line 184: batch_size % gradient_accumulation
\* = 0 holds, the schedule (if any) passed its asserts.
Schedules(n) ==
    {NoSchedule} \cup
    {s \in {LRSchedule(DefaultLr, n, w, d, t) :
                w \in 0..Quarters, d \in 0..Quarters, t \in {"linear", "cosine"}} :
        ScheduleValid(s)}

\* the argparse namespace
Config(n, ga, ci, vi, vd, vb, s, g, bs, sl) ==
    [n_steps |-> n, gradient_accumulation |-> ga, ckpt_interval |-> ci,
     val_interval |-> vi, val_dataset_dir |-> vd, val_batches |-> vb,
     lr |-> DefaultLr, lr_schedule |-> s, n_groups |-> g,
     batch_size |-> bs, seq_len |-> sl]

\* lines 171-172 and 195: the input tokens of one batch pulled from the
\* training stream, which is built with args.batch_size and args.seq_len
BatchTokens(a) == a.batch_size * a.seq_len

\* the gradient the backward pass of batch b adds to the buffer
BatchGrad(b) == 2 * b - 1

EmptyGrad == [sum |-> 0, ids |-> <<>>]

\* loss.backward(): accumulate into the buffer
Backward(g, b) == [sum |-> g.sum + BatchGrad(b), ids |-> Append(g.ids, b)]

\* a zero_grad() that leaves the buffer as it is
ZeroGrad_Skipped(g) == g

\* optim.zero_grad()
ZeroGrad(g) == EmptyGrad

NoFile == [state |-> "absent", model |-> <<>>, optim |-> [steps |-> 0, lr |-> <<>>], step |-> 0]

\* tokens: input tokens of the batches pulled and run through forward and
\* backward so far; logPoints: at each log point, the step, the token count
\* logged and the token count pulled
NoHist == [consumed |-> <<>>, lrQueries |-> 0, lrWrites |-> 0, trainModes |-> {},
           evalModes |-> {}, evalAt |-> {}, saves |-> 0, tokens |-> 0, logPoints |-> <<>>]

\* lines 184-191: the state in which the loop is entered
LoopStart ==
    /\ pc = "while"
    /\ step = 0
    /\ micro = 0
    /\ pulls = 0
    /\ grad = EmptyGrad
    /\ model = <<>>
    /\ optim = [steps |-> 0, lr |-> [i \in 1..args.n_groups |-> args.lr]]
    /\ mode = "train"
    /\ file = NoFile
    /\ evalSt = [n_batches |-> 0]
    /\ run = [closed |-> 0, logs |-> <<>>]
    /\ hist = NoHist

LoopInit ==
    /\ \E n \in 0..MaxSteps, ga \in 1..MaxGA, ci \in -1..MaxInterval, vi \in 0..MaxInterval,
          vd \in BOOLEAN, vb \in 0..MaxEvalBatches, g \in 1..MaxGroups :
         /\ vd \/ vb = 0
         /\ \E s \in Schedules(n) : args = Config(n, ga, ci, vi, vd, vb, s, g, 2 * ga, 2)
    /\ LoopStart

\* The configurations of a run one step longer than the log interval, so
\* that a log point after step 0 is reached: batch_size is a multiple of
\* gradient_accumulation (line 142).
LogRunInit ==
    /\ \E ga \in 1..MaxGA, ci \in {0, LogInterval}, vi \in {0, LogInterval},
          vb \in 0..1, b \in 1..2, sl \in 1..2 :
         /\ vi > 0 \/ vb = 0
         /\ args = Config(LogInterval + 1, ga, ci, vi, vi > 0, vb, NoSchedule, 1, b * ga, sl)
    /\ LoopStart

\* line 193: while step < args.n_steps
LoopCond(a, st) == st < a.n_steps

WhileTest ==
    /\ UNCHANGED notLoop
    /\ pc = "while"
    /\ pc' = IF LoopCond(args, step) THEN "accum" ELSE "finish"
    /\ micro' = 0
    /\ UNCHANGED <<args, step, pulls, grad, model, optim, mode, file, evalSt, run, hist>>

\* lines 194-197: one micro-step: next(dloader), forward, backward
Accumulate ==
    /\ UNCHANGED notLoop
    /\ pc = "accum"
    /\ pulls' = pulls + 1
    /\ grad' = Backward(grad, pulls + 1)
    /\ micro' = micro + 1
    /\ hist' = [hist EXCEPT !.trainModes = @ \cup {mode},
                             !.tokens = @ + BatchTokens(args)]
    /\ pc' = IF micro + 1 < args.gradient_accumulation THEN "accum" ELSE "step"
    /\ UNCHANGED <<args, step, model, optim, mode, file, evalSt, run>>

\* an LR update that writes param_groups[0] only
UpdatedLr_FirstGroupOnly(a, o, st) ==
    IF a.lr_schedule.on
    THEN [i \in DOMAIN o.lr |-> IF i = 1 THEN get_lr(a.lr_schedule, st) ELSE o.lr[i]]
    ELSE o.lr

\* lines 199-205: the LR written into every parameter group
UpdatedLr(a, o, st) ==
    IF a.lr_schedule.on
    THEN [i \in DOMAIN o.lr |-> get_lr(a.lr_schedule, st)]
    ELSE o.lr

\* lines 207-220: the record logged at a log point; num_tokens is
\* num_tokens_seen_millions before the division by 1e6 (line 212)
LogRecord(a, st, lrs) ==
    [step |-> st, lr |-> lrs[1], num_tokens |-> a.batch_size * a.seq_len * st]

\* lines 199-228: LR update, logging, optim.step(), optim.zero_grad(), step += 1
OptimStep ==
    /\ UNCHANGED notLoop
    /\ pc = "step"
    /\ LET lrs == UpdatedLr(args, optim, step)
       IN  /\ optim' = [steps |-> optim.steps + 1, lr |-> lrs]
           /\ model' = Append(model, [grad |-> grad, lr |-> lrs])
           /\ run' = IF step % LogInterval = 0
                     THEN [run EXCEPT !.logs = Append(@, LogRecord(args, step, lrs))]
                     ELSE run
           /\ hist' = [hist EXCEPT
                          !.logPoints = IF step % LogInterval = 0
                                        THEN Append(@, [step |-> step,
                                                        logged |-> LogRecord(args, step, lrs).num_tokens,
                                                        pulled |-> hist.tokens])
                                        ELSE @,
                          !.consumed = Append(@, [grad |-> grad, lr |-> lrs, step |-> step]),
                          !.lrQueries = IF args.lr_schedule.on THEN @ + 1 ELSE @,
                          !.lrWrites = IF args.lr_schedule.on THEN @ + Len(lrs) ELSE @]
    /\ grad' = ZeroGrad(grad)
    /\ step' = step + 1
    /\ pc' = "ckpt"
    /\ UNCHANGED <<args, micro, pulls, mode, file, evalSt>>

\* line 230
ShouldCkpt(a, st) == a.ckpt_interval > 0 /\ st % a.ckpt_interval = 0

\* a checkpoint record that stores the step of before the increment
MakeCkpt_StaleStep(m, o, st) == [model |-> m, optim |-> o, step |-> st - 1]

\* lines 231-235: the checkpoint record
MakeCkpt(m, o, st) == [model |-> m, optim |-> o, step |-> st]

\* line 236, torch.save opening last.pth for writing: the file is truncated
\* and the record is streamed into it
SaveOpen ==
    /\ UNCHANGED notLoop
    /\ pc = "ckpt"
    /\ ShouldCkpt(args, step)
    /\ LET c == MakeCkpt(model, optim, step)
       IN  file' = [state |-> "partial", model |-> c.model, optim |-> c.optim, step |-> c.step]
    /\ pc' = "saving"
    /\ UNCHANGED <<args, step, micro, pulls, grad, model, optim, mode, evalSt, run, hist>>

\* line 236, torch.save returning: the record is complete on disk
SaveClose ==
    /\ UNCHANGED notLoop
    /\ pc = "saving"
    /\ file' = [file EXCEPT !.state = "complete"]
    /\ hist' = [hist EXCEPT !.saves = @ + 1]
    /\ pc' = "val"
    /\ UNCHANGED <<args, step, micro, pulls, grad, model, optim, mode, evalSt, run>>

SkipCkpt ==
    /\ UNCHANGED notLoop
    /\ pc = "ckpt"
    /\ ~ShouldCkpt(args, step)
    /\ pc' = "val"
    /\ UNCHANGED <<args, step, micro, pulls, grad, model, optim, mode, file, evalSt, run, hist>>

\* line 238
ShouldEval(a, st) ==
    a.val_interval > 0 /\ st % a.val_interval = 0 /\ a.val_dataset_dir

\* an evaluation that forgets model.train()
AfterEvalMode_Forgotten == "eval"

\* the module's flag after model.train() at line 251
AfterEvalMode == "train"

\* lines 239-244: build the eval stream, reset the sums, model.eval()
EvalStart ==
    /\ UNCHANGED notLoop
    /\ pc = "val"
    /\ ShouldEval(args, step)
    /\ evalSt' = [n_batches |-> 0]
    /\ mode' = "eval"
    /\ hist' = [hist EXCEPT !.evalAt = @ \cup {step}]
    /\ pc' = "eval"
    /\ UNCHANGED <<args, step, micro, pulls, grad, model, optim, file, run>>

SkipEval ==
    /\ UNCHANGED notLoop
    /\ pc = "val"
    /\ ~ShouldEval(args, step)
    /\ pc' = "while"
    /\ UNCHANGED <<args, step, micro, pulls, grad, model, optim, mode, file, evalSt, run, hist>>

\* lines 246-248: one batch of the evaluation pass (forward under no_grad)
EvalBatch ==
    /\ UNCHANGED notLoop
    /\ pc = "eval"
    /\ evalSt.n_batches < args.val_batches
    /\ evalSt' = [n_batches |-> evalSt.n_batches + 1]
    /\ hist' = [hist EXCEPT !.evalModes = @ \cup {mode}]
    /\ UNCHANGED <<args, pc, step, micro, pulls, grad, model, optim, mode, file, run>>

\* lines 249-251: val_loss = total_loss / n_batches, log it, model.train()
EvalFinish ==
    /\ UNCHANGED notLoop
    /\ pc = "eval"
    /\ evalSt.n_batches = args.val_batches
    /\ IF evalSt.n_batches = 0
       THEN /\ pc' = "crashed"       \* ZeroDivisionError, uncaught
            /\ UNCHANGED <<mode, run>>
       ELSE /\ pc' = "while"
            /\ mode' = AfterEvalMode
            /\ run' = [run EXCEPT !.logs = Append(@, [step |-> step, val |-> TRUE])]
    /\ UNCHANGED <<args, step, micro, pulls, grad, model, optim, file, evalSt, hist>>

\* line 253: run.finish()
Finish ==
    /\ UNCHANGED notLoop
    /\ pc = "finish"
    /\ run' = [run EXCEPT !.closed = @ + 1]
    /\ pc' = "finished"
    /\ UNCHANGED <<args, step, micro, pulls, grad, model, optim, mode, file, evalSt, hist>>

LoopNext ==
    \/ WhileTest
    \/ Accumulate
    \/ OptimStep
    \/ SaveOpen
    \/ SaveClose
    \/ SkipCkpt
    \/ EvalStart
    \/ SkipEval
    \/ EvalBatch
    \/ EvalFinish
    \/ Finish

\* The process is terminated from outside (a signal, a power cut) at any
\* point of the run; nothing of the script runs afterwards.
Kill ==
    /\ UNCHANGED notLoop
    /\ pc \notin {"finished", "crashed", "killed"}
    /\ pc' = "killed"
    /\ UNCHANGED <<args, step, micro, pulls, grad, model, optim, mode, file, evalSt, run, hist>>

\* ------------------------------------------------------ the batch streamers
\* (batch_size, seq_len) of the datasets explored
Shapes == {<<1, 1>>, <<2, 1>>, <<1, 2>>, <<2, 2>>}

\* the largest toks_per_batch among them
MaxTpb == 2 * (2 + 1)

\* line 29: toks_per_batch
TokensPerBatch(batch_size, seq_len) == batch_size * (seq_len + 1)

\* the shard sizes explored for a given toks_per_batch: empty, shorter than a
\* batch (1 token, one token short), exactly one batch, batches and a token
SizesFor(tpb) ==
    {0, 1, tpb - 1, tpb} \cup {k * tpb + 1 : k \in 1..MaxSlices}

\* the sequences over S without repetition that enumerate S (torch.randperm)
Perms(S) ==
    {f \in [1..Cardinality(S) -> S] : \A i, j \in 1..Cardinality(S) : f[i] = f[j] => i = j}

\* the orders in which glob may list n files: ascending or descending names
GlobOrders(n) == {[i \in 1..n |-> i], [i \in 1..n |-> n + 1 - i]}

RECURSIVE SortedSeq(_)
\* sorted(...): the ascending sequence of a set of file names
SortedSeq(S) ==
    IF S = {} THEN <<>>
    ELSE LET m == CHOOSE x \in S : \A y \in S : x <= y
         IN  <<m>> \o SortedSeq(S \ {m})

\* the uint16 token at position p (from 0) of the shard file named f
ShardTok(f, p) == (f * 100 + p) % 65536

NoView == [shard |-> 0, offset |-> 0, len |-> 0]

NoBatch == [tokens |-> <<>>, labels |-> <<>>, shard |-> 0, offset |-> 0, slice |-> 0]

\* visitYields: batches yielded by the current visit; visited: shard files
\* visited in the current cycle; used: slice indices yielded by the current
\* visit; pass: what an evaluation pass has yielded, as <<file, offset, slice>>
NoStreamHist == [visitYields |-> 0, visited |-> <<>>, used |-> <<>>, pass |-> <<>>]

\* A dataset directory on disk and the (batch_size, seq_len, class) a
\* dataset is about to be built with; nothing is constructed yet.
StreamInit ==
    /\ \E sh \in Shapes, n \in 0..MaxShards, variant \in {"train", "eval"} :
         /\ \E sz \in [1..n -> SizesFor(TokensPerBatch(sh[1], sh[2]))], g \in GlobOrders(n) :
              disk = [files |-> g, size |-> sz]
         /\ ds = [shards |-> <<>>, batch_size |-> sh[1], seq_len |-> sh[2], variant |-> variant]
    /\ sPc = "start"
    /\ order = <<>>
    /\ view = NoView
    /\ slices = <<>>
    /\ batch = NoBatch
    /\ sHist = NoStreamHist

\* line 26: sorted(Path(dataset_dir).glob("*.bin"))
ListShards(d) == SortedSeq({d.files[i] : i \in DOMAIN d.files})

\* lines 24-30: TokenDataset.__init__
Construct ==
    /\ UNCHANGED notStream
    /\ sPc = "start"
    /\ ds' = [ds EXCEPT !.shards = ListShards(disk)]
    /\ sPc' = "new"
    /\ UNCHANGED <<disk, order, view, slices, batch, sHist>>

\* iter(DataLoader(ds, ...)) / the for loop over val_dloader: the generator starts
Iter ==
    /\ UNCHANGED notStream
    /\ sPc = "new"
    /\ sPc' = "cycle"
    /\ UNCHANGED <<disk, ds, order, view, slices, batch, sHist>>

\* line 47: torch.randperm(len(self.shards)); line 67: range(len(self.shards))
ShardOrders(d) ==
    IF d.variant = "train"
    THEN Perms(1..Len(d.shards))
    ELSE {[i \in 1..Len(d.shards) |-> i]}

\* lines 44-47 / line 67: a pass over the shards begins
StartCycle ==
    /\ UNCHANGED notStream
    /\ sPc = "cycle"
    /\ order' \in ShardOrders(ds)
    /\ sPc' = "shards"
    /\ batch' = NoBatch
    /\ UNCHANGED <<disk, ds, view, slices, sHist>>

\* lines 48 / 67 with no shard left: the training stream starts over
\* (while True), the evaluation stream ends
CycleEnd ==
    /\ UNCHANGED notStream
    /\ sPc = "shards"
    /\ order = <<>>
    /\ sPc' = IF ds.variant = "train" THEN "cycle" ELSE "exhausted"
    /\ batch' = NoBatch
    /\ sHist' = [sHist EXCEPT !.visited = <<>>]
    /\ UNCHANGED <<disk, ds, order, view, slices>>

\* line 52: torch.randint(0, self.toks_per_batch, size=(1,)); line 68: no offset
Offsets(d) ==
    IF d.variant = "train"
    THEN 0..(TokensPerBatch(d.batch_size, d.seq_len) - 1)
    ELSE {0}

\* np.memmap(path, dtype=np.uint16, mode="r", offset=offset * 2) on a file of
\* size tokens: the length of the array, or -1 when it raises ValueError (an
\* empty file cannot be mapped; an offset past the end gives a negative shape)
Memmap(size, offset) ==
    IF size = 0 \/ offset > size THEN 0 - 1 ELSE size - offset

\* the number of slices rounded up: the last slice runs past the view
NSlices_RoundedUp(len, tpb) == (len + tpb - 1) \div tpb

\* line 33: n_slices
NSlices(len, tpb) == len \div tpb

\* line 34: torch.randperm(n_slices) if shuffle else range(n_slices)
SliceOrders(n, shuffle) ==
    IF shuffle THEN Perms(0..(n - 1)) ELSE {[i \in 1..n |-> i - 1]}

\* lines 48-54 / 67-69 and 33-34: the next shard is mapped at offset o and
\* its slice order drawn
VisitShard(o) ==
    /\ UNCHANGED notStream
    /\ sPc = "shards"
    /\ order # <<>>
    /\ o \in Offsets(ds)
    /\ LET f == ds.shards[Head(order)]
           len == Memmap(disk.size[f], o)
           tpb == TokensPerBatch(ds.batch_size, ds.seq_len)
       IN  /\ view' = [shard |-> f, offset |-> o, len |-> len]
           /\ IF len < 0
              THEN /\ sPc' = "error"
                   /\ slices' = <<>>
              ELSE /\ sPc' = "slices"
                   /\ slices' \in SliceOrders(NSlices(len, tpb), ds.variant = "train")
    /\ order' = Tail(order)
    /\ sHist' = [sHist EXCEPT !.visitYields = 0,
                               !.visited = Append(@, ds.shards[Head(order)]),
                               !.used = <<>>]
    /\ batch' = NoBatch
    /\ UNCHANGED <<disk, ds>>

\* line 37: shard[slice_idx * toks_per_batch : (slice_idx + 1) * toks_per_batch]
SliceOf(v, k, tpb) == [j \in 1..tpb |-> ShardTok(v.shard, v.offset + k * tpb + j - 1)]

\* line 38: batch.view(self.batch_size, self.seq_len + 1)
ViewRows(sl, rows, width) == [i \in 1..rows |-> [j \in 1..width |-> sl[(i - 1) * width + j]]]

\* line 39: batch[:, :-1]
TokensOf(rows) == [i \in DOMAIN rows |-> SubSeq(rows[i], 1, Len(rows[i]) - 1)]

\* labels cut like the tokens, batch[:, :-1]: no shift
LabelsOf_NoShift(rows) == [i \in DOMAIN rows |-> SubSeq(rows[i], 1, Len(rows[i]) - 1)]

\* line 40: batch[:, 1:]
LabelsOf(rows) == [i \in DOMAIN rows |-> SubSeq(rows[i], 2, Len(rows[i]))]

\* lines 36-41: the next slice of the view is cut and yielded
YieldBatch ==
    /\ UNCHANGED notStream
    /\ sPc = "slices"
    /\ slices # <<>>
    /\ LET tpb == TokensPerBatch(ds.batch_size, ds.seq_len)
           k == Head(slices)
           rows == ViewRows(SliceOf(view, k, tpb), ds.batch_size, ds.seq_len + 1)
       IN  batch' = [tokens |-> TokensOf(rows), labels |-> LabelsOf(rows),
                     shard |-> view.shard, offset |-> view.offset, slice |-> k]
    /\ slices' = Tail(slices)
    /\ sHist' = [sHist EXCEPT !.visitYields = @ + 1,
                               !.used = Append(@, Head(slices)),
                               !.pass = IF ds.variant = "eval"
                                        THEN Append(@, <<view.shard, view.offset, Head(slices)>>)
                                        ELSE @]
    /\ UNCHANGED <<disk, ds, sPc, order, view>>

\* line 36 with no slice left: _iter_shard returns, on to the next shard
ShardDone ==
    /\ UNCHANGED notStream
    /\ sPc = "slices"
    /\ slices = <<>>
    /\ sPc' = "shards"
    /\ batch' = NoBatch
    /\ sHist' = [sHist EXCEPT !.used = <<>>]
    /\ UNCHANGED <<disk, ds, order, view, slices>>

StreamNext ==
    \/ Construct
    \/ Iter
    \/ StartCycle
    \/ CycleEnd
    \/ \E o \in 0..(MaxTpb - 1) : VisitShard(o)
    \/ YieldBatch
    \/ ShardDone

\* --------------------------------------------- the schedule as a function
\* total_steps ranges over 0..MaxTotal where the schedule is explored alone
MaxTotal == 8

\* base learning rates a schedule is built with
LrValues == {DefaultLr, 2 * DefaultLr + 1}

\* decay_type as given by the caller; "exp" is not one LRSchedule accepts
DecayTypes == {"linear", "cosine", "exp"}

NoLrq == [pc |-> "idle", lr |-> 0, n_steps |-> 0, warmupQ |-> 0, decayQ |-> 0,
          decay_type |-> "linear", sched |-> NoSchedule, table |-> <<>>]

\* the arguments of LRSchedule(...): lr, n_steps, warmup, decay, decay_type
LrInit ==
    \E l \in LrValues, n \in 0..MaxTotal, w \in 0..Quarters, d \in 0..Quarters, t \in DecayTypes :
        lrq = [NoLrq EXCEPT !.pc = "args", !.lr = l, !.n_steps = n, !.warmupQ = w,
                            !.decayQ = d, !.decay_type = t]

\* LRSchedule.__init__: the boundaries are computed, then the two asserts
LrConstruct ==
    /\ lrq.pc = "args"
    /\ LET s == LRSchedule(lrq.lr, lrq.n_steps, lrq.warmupQ, lrq.decayQ, lrq.decay_type)
       IN  lrq' = [lrq EXCEPT !.pc = IF ScheduleValid(s) THEN "built" ELSE "AssertionError",
                              !.sched = s]
    /\ UNCHANGED <<loopVars, streamVars, ini, qm>>

\* one call of get_lr: ZeroDivisionError where the branch taken divides by 0
LrCall(s, st) ==
    IF LrDivisor(s, st) = 0
    THEN [raised |-> TRUE, lr |-> 0]
    ELSE [raised |-> FALSE, lr |-> get_lr(s, st)]

\* the steps get_lr is called with: one before 0 up to one after n_steps
LrSteps(n) == (0 - 1)..(n + 1)

\* a caller reads the rate of every step
LrTabulate ==
    /\ lrq.pc = "built"
    /\ lrq' = [lrq EXCEPT !.pc = "read",
                          !.table = [st \in LrSteps(lrq.n_steps) |-> LrCall(lrq.sched, st)]]
    /\ UNCHANGED <<loopVars, streamVars, ini, qm>>

LrNext ==
    \/ LrConstruct
    \/ LrTabulate

\* ------------------------------------------------------------ quantize_model
\* sublayers of a model explored: sequences of up to MaxLayers
MaxLayers == 3

\* a configuration name as the caller gives it: absent (None) or a string
NoName == [given |-> FALSE, name |-> ""]

Name(str) == [given |-> TRUE, name |-> str]

\* the names quantize_model compares with, lines 21-31
RecognizedNames ==
    {"int8", "int8_activation_int8", "int8_activation_int8_sr",
     "int8_activation_int8_grad_weight_int8",
     "int8_activation_int8_sr_grad_weight_int8_sr", "int4"}

\* some names it does not compare with
OtherNames == {"", "none", "None", "INT8", "int8_sr", "int4_activation_int8", "fp8"}

QuantNames == {NoName} \cup {Name(n) : n \in RecognizedNames \cup OtherNames}

\* a sublayer: its kind and the format of its weight
Layer(kind) == [kind |-> kind, weight |-> "plain"]

\* the models explored: every sequence of linear / norm sublayers
Models == UNION {[1..n -> {Layer("linear"), Layer("norm")}] : n \in 0..MaxLayers}

\* quantize_linear_weight_int8(model, config) / quantize_linear_weight_int4(model):
\* the weight of every linear sublayer is replaced, the rest is left alone
QuantizeLinearWeight(layers, t) ==
    [i \in DOMAIN layers |->
        IF layers[i].kind = "linear" THEN [layers[i] EXCEPT !.weight = t] ELSE layers[i]]

\* the transformation a recognized name selects, lines 21-32
Transformation(str) ==
    IF str = "int8" THEN [fn |-> "int8", activation |-> "none", grad_weight_compute |-> "none"]
    ELSE IF str = "int8_activation_int8"
        THEN [fn |-> "int8", activation |-> "int8", grad_weight_compute |-> "none"]
    ELSE IF str = "int8_activation_int8_sr"
        THEN [fn |-> "int8", activation |-> "int8_sr", grad_weight_compute |-> "none"]
    ELSE IF str = "int8_activation_int8_grad_weight_int8"
        THEN [fn |-> "int8", activation |-> "int8", grad_weight_compute |-> "int8"]
    ELSE IF str = "int8_activation_int8_sr_grad_weight_int8_sr"
        THEN [fn |-> "int8", activation |-> "int8_sr", grad_weight_compute |-> "int8_sr"]
    ELSE [fn |-> "int4", activation |-> "none", grad_weight_compute |-> "none"]

\* quantize_model without its last branch: an unknown name is passed over
quantize_model_NoRaise(layers, q) ==
    IF q.given /\ q.name \in RecognizedNames
    THEN [raised |-> FALSE,
          layers |-> QuantizeLinearWeight(layers, Transformation(q.name)),
          calls |-> <<Transformation(q.name)>>]
    ELSE [raised |-> FALSE, layers |-> layers, calls |-> <<>>]

\* train_utils.quantize_model: the model after the call, the transformations
\* it called, and whether it raised ValueError
quantize_model(layers, q) ==
    IF q.given /\ q.name \in RecognizedNames
    THEN [raised |-> FALSE,
          layers |-> QuantizeLinearWeight(layers, Transformation(q.name)),
          calls |-> <<Transformation(q.name)>>]
    ELSE IF q.given
    THEN [raised |-> TRUE, layers |-> layers, calls |-> <<>>]
    ELSE [raised |-> FALSE, layers |-> layers, calls |-> <<>>]

NoQm == [pc |-> "idle", name |-> NoName, orig |-> <<>>, layers |-> <<>>, calls |-> <<>>]

\* a model and a configuration name, about to be passed to quantize_model
QuantInit ==
    \E q \in QuantNames, m \in Models :
        qm = [NoQm EXCEPT !.pc = "call", !.name = q, !.orig = m, !.layers = m]

\* quantize_model(model, quantization)
QuantCall ==
    /\ qm.pc = "call"
    /\ LET r == quantize_model(qm.layers, qm.name)
       IN  qm' = [qm EXCEPT !.pc = IF r.raised THEN "ValueError" ELSE "returned",
                            !.layers = r.layers,
                            !.calls = r.calls]
    /\ UNCHANGED <<loopVars, streamVars, lrq, ini>>

QuantNext == QuantCall

\* ------------------------------------------- the initialisation of __main__
\* Lines 142-182. The call at line 160 is modelled by the definition it
\* reaches, train_utils.quantize_model, with one configuration name.
NoKwargs == [given |-> FALSE, warmupQ |-> 0, decayQ |-> 0, decay_type |-> "linear"]

\* --lr_schedule_kwargs: absent, or warmup, decay (quarters) and decay_type
ScheduleKwargs ==
    {NoKwargs} \cup
    {[given |-> TRUE, warmupQ |-> w, decayQ |-> d, decay_type |-> t] :
        w \in 0..Quarters, d \in 0..Quarters, t \in DecayTypes}

\* the model as LlamaForCausalLM builds it: model.model and model.lm_head
FreshModel == [model |-> <<Layer("linear"), Layer("norm")>>, lm_head |-> <<Layer("linear")>>]

NoIni == [pc |-> "idle",
          args |-> [batch_size |-> 1, gradient_accumulation |-> 1, quantization |-> NoName,
                    quantize_lm_head |-> FALSE, lr_schedule_kwargs |-> NoKwargs,
                    n_steps |-> 0, n_shards |-> 0],
          built |-> {}, model |-> [model |-> <<>>, lm_head |-> <<>>], error |-> "none"]

\* line 140: the parsed command line and the dataset directory it names
MainInit ==
    \E bs \in 1..MaxGA, ga \in 1..MaxGA, q \in {NoName, Name("int8"), Name("fp8")},
       lm \in BOOLEAN, kw \in ScheduleKwargs, ns \in 0..MaxShards :
        ini = [NoIni EXCEPT !.pc = "parsed",
                            !.args = [batch_size |-> bs, gradient_accumulation |-> ga,
                                      quantization |-> q, quantize_lm_head |-> lm,
                                      lr_schedule_kwargs |-> kw, n_steps |-> MaxSteps,
                                      n_shards |-> ns]]

\* line 142: assert args.batch_size % args.gradient_accumulation == 0
CheckAccumulation ==
    /\ ini.pc = "parsed"
    /\ ini' = IF ini.args.batch_size % ini.args.gradient_accumulation = 0
              THEN [ini EXCEPT !.pc = "config"]
              ELSE [ini EXCEPT !.pc = "failed", !.error = "AssertionError: accumulation"]
    /\ UNCHANGED <<loopVars, streamVars, lrq, qm>>

\* lines 149-159: LlamaForCausalLM(config).bfloat16().cuda()
BuildModel ==
    /\ ini.pc = "config"
    /\ ini' = [ini EXCEPT !.pc = "quantize", !.built = @ \cup {"model"}, !.model = FreshModel]
    /\ UNCHANGED <<loopVars, streamVars, lrq, qm>>

\* lines 160-163: quantize_model on model.model, and on model.lm_head if asked
QuantizeModel ==
    /\ ini.pc = "quantize"
    /\ LET body == quantize_model(ini.model.model, ini.args.quantization)
           head == IF ini.args.quantize_lm_head
                   THEN quantize_model(ini.model.lm_head, ini.args.quantization)
                   ELSE [raised |-> FALSE, layers |-> ini.model.lm_head, calls |-> <<>>]
       IN  ini' = IF body.raised
                  THEN [ini EXCEPT !.pc = "failed", !.error = "ValueError: quantization"]
                  ELSE [ini EXCEPT !.pc = "optim",
                                   !.model = [model |-> body.layers, lm_head |-> head.layers]]
    /\ UNCHANGED <<loopVars, streamVars, lrq, qm>>

\* lines 165-166: the optimizer is created over model.parameters()
BuildOptim ==
    /\ ini.pc = "optim"
    /\ ini' = [ini EXCEPT !.pc = "schedule", !.built = @ \cup {"optimizer"}]
    /\ UNCHANGED <<loopVars, streamVars, lrq, qm>>

\* lines 167-169: LRSchedule(args.lr, args.n_steps, **kwargs) if kwargs are given
BuildSchedule ==
    /\ ini.pc = "schedule"
    /\ LET kw == ini.args.lr_schedule_kwargs
           s == LRSchedule(DefaultLr, ini.args.n_steps, kw.warmupQ, kw.decayQ, kw.decay_type)
       IN  ini' = IF kw.given /\ ~ScheduleValid(s)
                  THEN [ini EXCEPT !.pc = "failed", !.error = "AssertionError: schedule"]
                  ELSE [ini EXCEPT !.pc = "data"]
    /\ UNCHANGED <<loopVars, streamVars, lrq, qm>>

\* lines 171-172: TokenDataset(...) lists the shards, iter(DataLoader(...))
\* opens the stream; the number of shards found is printed, not checked
OpenStream ==
    /\ ini.pc = "data"
    /\ ini' = [ini EXCEPT !.pc = "sink", !.built = @ \cup {"stream"}]
    /\ UNCHANGED <<loopVars, streamVars, lrq, qm>>

\* lines 174-182: save_dir.mkdir(...), wandb.init(...); then line 184
OpenSink ==
    /\ ini.pc = "sink"
    /\ ini' = [ini EXCEPT !.pc = "loop", !.built = @ \cup {"save_dir", "sink"}]
    /\ UNCHANGED <<loopVars, streamVars, lrq, qm>>

MainNext ==
    \/ CheckAccumulation
    \/ BuildModel
    \/ QuantizeModel
    \/ BuildOptim
    \/ BuildSchedule
    \/ OpenStream
    \/ OpenSink

\* ------------------------------------------------------- the specifications
\* While the training loop is explored no dataset object is explored, and
\* the other way round.
StreamIdle ==
    /\ disk = [files |-> <<>>, size |-> <<>>]
    /\ ds = [shards |-> <<>>, batch_size |-> 1, seq_len |-> 1, variant |-> "train"]
    /\ sPc = "idle"
    /\ order = <<>>
    /\ view = NoView
    /\ slices = <<>>
    /\ batch = NoBatch
    /\ sHist = NoStreamHist

LrIdle == lrq = NoLrq

InitIdle == ini = NoIni

QuantIdle == qm = NoQm

LoopIdle ==
    /\ args = Config(0, 1, 0, 0, FALSE, 0, NoSchedule, 1, 1, 1)
    /\ pc = "idle"
    /\ step = 0
    /\ micro = 0
    /\ pulls = 0
    /\ grad = EmptyGrad
    /\ model = <<>>
    /\ optim = [steps |-> 0, lr |-> <<DefaultLr>>]
    /\ mode = "train"
    /\ file = NoFile
    /\ evalSt = [n_batches |-> 0]
    /\ run = [closed |-> 0, logs |-> <<>>]
    /\ hist = NoHist

vars == <<loopVars, streamVars, auxVars>>

Init == LoopInit /\ StreamIdle /\ LrIdle /\ InitIdle /\ QuantIdle

Next == LoopNext

Spec == Init /\ [][Next]_vars

KillNext == LoopNext \/ Kill

SpecKill == Init /\ [][KillNext]_vars

LogInit == LogRunInit /\ StreamIdle /\ LrIdle /\ InitIdle /\ QuantIdle

SpecLog == LogInit /\ [][Next]_vars

SInit == StreamInit /\ LoopIdle /\ LrIdle /\ InitIdle /\ QuantIdle

SNext == StreamNext

SpecStream == SInit /\ [][SNext]_vars

LInit == LrInit /\ LoopIdle /\ StreamIdle /\ InitIdle /\ QuantIdle

LNext == LrNext

SpecLR == LInit /\ [][LNext]_vars

QInit == QuantInit /\ LoopIdle /\ StreamIdle /\ LrIdle /\ InitIdle

QNext == QuantNext

SpecQuant == QInit /\ [][QNext]_vars

MInit == MainInit /\ LoopIdle /\ StreamIdle /\ LrIdle /\ QuantIdle

MNext == MainNext

SpecMain == MInit /\ [][MNext]_vars

\* the visit of shard file f at offset o
VisitShardOf(f, o) == VisitShard(o) /\ view'.shard = f

\* A consumer that keeps pulling keeps the generator running, and each value
\* the random offset can take is drawn again and again for each shard.
FairStream ==
    /\ SpecStream
    /\ WF_vars(SNext)
    /\ \A f \in 1..MaxShards, o \in 0..(MaxTpb - 1) : SF_vars(VisitShardOf(f, o))

\* ------------------------------------------------------------------ claims
RECURSIVE SumGrads(_)
SumGrads(ids) == IF ids = <<>> THEN 0 ELSE BatchGrad(Head(ids)) + SumGrads(Tail(ids))

\* C1: the training loop ends in the finished state: the step counter stays
\* within 0..n_steps and counts the optimizer steps, the finished state has
\* step = n_steps after n_steps * gradient_accumulation pulls, the logging
\* run is closed at most once and only at step = n_steps, and the loop never
\* stops anywhere but in the finished state.
C1_LoopEndsFinished ==
    /\ step \in 0..args.n_steps
    /\ optim.steps = step
    /\ run.closed <= 1
    /\ (run.closed = 1 => step = args.n_steps)
    /\ (pc = "finished" =>
            /\ step = args.n_steps
            /\ pulls = args.n_steps * args.gradient_accumulation
            /\ run.closed = 1)
    /\ (pc = "finished" \/ ENABLED Next)

\* C2: the gradient buffer is zero when an accumulating phase starts, and
\* the k-th optimizer step consumes the plain sum of the gradients of the
\* micro-batches (k-1)*ga+1 .. k*ga and of no other.
C2_GradientIsSumOfMicroBatches ==
    /\ (pc = "accum" /\ micro = 0 => grad = EmptyGrad)
    /\ \A k \in 1..Len(hist.consumed) :
          LET ga == args.gradient_accumulation
              g == hist.consumed[k].grad
          IN  /\ g.ids = [i \in 1..ga |-> (k - 1) * ga + i]
              /\ g.sum = SumGrads([i \in 1..ga |-> (k - 1) * ga + i])

C2_Witness ==
    /\ Len(hist.consumed) >= 2
    /\ args.gradient_accumulation >= 2
    /\ pc = "accum" /\ micro = 1

\* C3: with a schedule, it is queried once per optimizer step and the update
\* that moves the step counter from k to k+1 runs with every parameter
\* group's lr equal to get_lr(k); without a schedule no lr is ever written.
C3_LrWrittenOncePerStep ==
    /\ args.lr_schedule.on =>
          /\ hist.lrQueries = Len(hist.consumed)
          /\ hist.lrQueries = step
          /\ hist.lrWrites = step * args.n_groups
          /\ \A k \in 1..Len(hist.consumed) :
                /\ hist.consumed[k].step = k - 1
                /\ DOMAIN hist.consumed[k].lr = 1..args.n_groups
                /\ \A i \in 1..args.n_groups :
                      hist.consumed[k].lr[i] = get_lr(args.lr_schedule, k - 1)
    /\ ~args.lr_schedule.on =>
          /\ hist.lrQueries = 0
          /\ hist.lrWrites = 0
          /\ optim.lr = [i \in 1..args.n_groups |-> args.lr]

C3_Witness ==
    /\ args.lr_schedule.on
    /\ args.n_groups >= 2
    /\ args.gradient_accumulation >= 2
    /\ Len(hist.consumed) >= 3
    /\ hist.consumed[1].lr[2] < hist.consumed[2].lr[2]
    /\ hist.consumed[3].lr[2] < hist.consumed[2].lr[2]

\* C4: with ckpt_interval > 0, when a loop iteration has ended with step s,
\* last.pth exists iff s >= ckpt_interval, and then it is the complete record
\* of step ckpt_interval * floor(s / ckpt_interval) with the model and the
\* optimizer as they were after that many optimizer steps; with
\* ckpt_interval <= 0 nothing is ever written.
C4_CheckpointIsLastMultiple ==
    LET ci == args.ckpt_interval
    IN  /\ (ci > 0 /\ pc = "while") =>
              /\ (file.state # "absent") <=> (step >= ci)
              /\ step >= ci =>
                    /\ file.state = "complete"
                    /\ file.step = ci * (step \div ci)
                    /\ file.model = SubSeq(model, 1, file.step)
                    /\ file.optim = [steps |-> file.step, lr |-> model[file.step].lr]
                    /\ hist.saves = step \div ci
        /\ ci <= 0 => (file = NoFile /\ hist.saves = 0)

C4_Witness ==
    /\ pc = "while"
    /\ args.ckpt_interval = 2
    /\ step = 3
    /\ file.state = "complete"
    /\ file.step = 2
    /\ Len(model) = 3

\* C5: whenever the process is terminated, last.pth is absent or a complete
\* checkpoint, never a partly written one.
C5_CheckpointFileNeverPartial ==
    pc = "killed" => file.state \in {"absent", "complete"}

\* C6: an evaluation pass has run at exactly the steps s >= 1 with
\* val_interval > 0, s a multiple of val_interval and an eval directory
\* given; every forward pass of an evaluation ran in eval mode, every
\* training forward pass in train mode, and an accumulating phase starts in
\* train mode.
C6_EvalWhenDueInEvalMode ==
    LET decided == IF pc \in {"ckpt", "saving", "val"} THEN step - 1 ELSE step
    IN  /\ hist.evalAt = {s \in 1..decided :
                              /\ args.val_interval > 0
                              /\ s % args.val_interval = 0
                              /\ args.val_dataset_dir}
        /\ hist.evalModes \subseteq {"eval"}
        /\ hist.trainModes \subseteq {"train"}
        /\ (pc = "accum" => mode = "train")
        /\ (pc = "eval" => mode = "eval")

C6_Witness ==
    /\ pc = "step"
    /\ hist.evalAt = {1, 2}
    /\ hist.evalModes = {"eval"}
    /\ step = 2
    /\ mode = "train"

\* C7: a consumer that keeps pulling from the training stream receives a
\* batch again and again (a k-th batch for every k): the stream never ends
\* and no pull waits forever, whatever the sizes of the shards.
C7_TrainStreamKeepsYielding ==
    (ds.variant = "train") => []<>(batch # NoBatch)

\* C8: a directory with zero shard files is refused when the dataset is
\* built: no dataset object with an empty shard list comes to exist, so none
\* is iterated.
C8_EmptyDirectoryIsRefused ==
    (Len(disk.files) = 0) => sPc = "start"

\* C9: visiting a shard with fewer than toks_per_batch tokens raises no
\* error and yields no batch, at every offset, in both variants.
C9_ShortShardYieldsNothing ==
    (view.shard # 0 /\ disk.size[view.shard] < TokensPerBatch(ds.batch_size, ds.seq_len)) =>
        /\ sPc # "error"
        /\ slices = <<>>
        /\ sHist.visitYields = 0

\* C10: a yielded batch is (tokens, labels), each batch_size rows of seq_len
\* tokens, cut from toks_per_batch contiguous tokens of one shard taken as
\* batch_size rows of seq_len + 1: tokens[i] is the row without its last
\* token, labels[i] the row without its first, so tokens[i] followed by the
\* last label of row i is row i.
C10_BatchIsRowsShiftedByOne ==
    batch # NoBatch =>
        LET B == ds.batch_size
            L == ds.seq_len
            base == batch.offset + batch.slice * TokensPerBatch(B, L)
            row(i) == [j \in 1..(L + 1) |-> ShardTok(batch.shard, base + (i - 1) * (L + 1) + j - 1)]
        IN  /\ base + TokensPerBatch(B, L) <= disk.size[batch.shard]
            /\ DOMAIN batch.tokens = 1..B
            /\ DOMAIN batch.labels = 1..B
            /\ \A i \in 1..B :
                  /\ Len(batch.tokens[i]) = L
                  /\ Len(batch.labels[i]) = L
                  /\ batch.tokens[i] \o <<batch.labels[i][L]>> = row(i)
                  /\ \A j \in 1..L : batch.tokens[i][j] = row(i)[j] /\ batch.labels[i][j] = row(i)[j + 1]

C10_Witness ==
    /\ batch # NoBatch
    /\ ds.batch_size = 2
    /\ ds.seq_len = 2
    /\ batch.offset = 1
    /\ batch.slice = 1
    /\ batch.tokens[2] # batch.labels[2]

\* the batches of one file, by ascending slice index at offset 0
RECURSIVE FileBatches(_, _)
FileBatches(f, n) ==
    IF n = 0 THEN <<>> ELSE Append(FileBatches(f, n - 1), <<f, 0, n - 1>>)

\* what a pass over the files of F yields when it takes them by ascending
\* name, each at offset 0 with its floor(size / toks_per_batch) slices in
\* ascending order: a function of the directory alone
RECURSIVE SortedPass(_)
SortedPass(F) ==
    IF F = {} THEN <<>>
    ELSE LET f == CHOOSE x \in F : \A y \in F : x <= y
         IN  FileBatches(f, disk.size[f] \div TokensPerBatch(ds.batch_size, ds.seq_len))
             \o SortedPass(F \ {f})

\* C11: a pass of the evaluation stream depends on the directory alone (so
\* any two passes over the same directory yield the same batches in the same
\* order): it takes the shards once in sorted file name order, each at
\* offset 0 with ascending slice indices, yields exactly the sum over the
\* shards of floor(shard_tokens / toks_per_batch) batches, and then ends.
C11_EvalPassIsSortedPass ==
    (ds.variant = "eval" /\ sPc \notin {"start", "new"}) =>
        LET expected == SortedPass({disk.files[i] : i \in DOMAIN disk.files})
        IN  /\ sPc # "error"
            /\ Len(sHist.pass) <= Len(expected)
            /\ sHist.pass = SubSeq(expected, 1, Len(sHist.pass))
            /\ sPc = "exhausted" => sHist.pass = expected

\* the boundaries as the schedule's description gives them
FloorT1 == (lrq.n_steps * lrq.warmupQ) \div Quarters

FloorT2 == (lrq.n_steps * (Quarters - lrq.decayQ)) \div Quarters

\* a schedule that passed construction with warmup + decay <= 1, read at every step
ReadValid == lrq.pc = "read" /\ lrq.warmupQ + lrq.decayQ <= Quarters

\* C12: for every schedule that passes construction with warmup + decay <= 1,
\* of either decay type, with t1 = floor(total * warmup) and
\* t2 = floor(total * (1 - decay)), the rate at step t1 and the rate at step
\* t2 - 1 are both exactly the base rate.
C12_ConstantPhaseEndpoints ==
    ReadValid =>
        /\ ~lrq.table[FloorT1].raised
        /\ lrq.table[FloorT1].lr = lrq.lr
        /\ ~lrq.table[FloorT2 - 1].raised
        /\ lrq.table[FloorT2 - 1].lr = lrq.lr

\* C12 amended: the same, for the schedules whose constant phase is not
\* empty (t1 < t2).
C12_ConstantPhaseEndpointsWhenNonEmpty ==
    (ReadValid /\ FloorT1 < FloorT2) =>
        /\ ~lrq.table[FloorT1].raised
        /\ lrq.table[FloorT1].lr = lrq.lr
        /\ ~lrq.table[FloorT2 - 1].raised
        /\ lrq.table[FloorT2 - 1].lr = lrq.lr

\* a cosine schedule with warmup, a constant phase of two steps or more and
\* a decay, whose rate is below the base rate on both sides of the phase
C12_Witness ==
    /\ ReadValid
    /\ lrq.decay_type = "cosine"
    /\ 0 < FloorT1
    /\ FloorT1 < FloorT2 - 1
    /\ FloorT2 < lrq.n_steps
    /\ lrq.table[FloorT1 - 1].lr < lrq.lr
    /\ lrq.table[FloorT2 + 1].lr < lrq.lr
    /\ lrq.table[FloorT1].lr = lrq.lr
    /\ lrq.table[FloorT2 - 1].lr = lrq.lr

\* C13: for every schedule that passes construction with warmup + decay <= 1,
\* of either decay type, the rate at step 0 is 0 whenever the warmup
\* fraction is positive, and the rate is 0 at every step >= total_steps.
C13_ZeroAtStartAndAfterEnd ==
    ReadValid =>
        /\ lrq.warmupQ > 0 => (~lrq.table[0].raised /\ lrq.table[0].lr = 0)
        /\ \A st \in LrSteps(lrq.n_steps) :
               st >= lrq.n_steps => (~lrq.table[st].raised /\ lrq.table[st].lr = 0)

\* C13 amended: the rate at step 0 is 0 whenever the warmup phase has at
\* least one step (t1 = floor(total_steps * warmup) > 0), and the rate is 0
\* at every step >= total_steps.
C13_ZeroAtStartOfWarmupAndAfterEnd ==
    ReadValid =>
        /\ FloorT1 > 0 => (~lrq.table[0].raised /\ lrq.table[0].lr = 0)
        /\ \A st \in LrSteps(lrq.n_steps) :
               st >= lrq.n_steps => (~lrq.table[st].raised /\ lrq.table[st].lr = 0)

\* a schedule that warms up from 0 and whose rate is positive until the
\* last step, then 0
C13_Witness ==
    /\ ReadValid
    /\ FloorT1 > 1
    /\ lrq.table[0].lr = 0
    /\ lrq.table[1].lr > 0
    /\ lrq.table[lrq.n_steps - 1].lr > 0
    /\ lrq.table[lrq.n_steps].lr = 0
    /\ lrq.table[lrq.n_steps + 1].lr = 0

\* the rate read at a step: returned, and within 0..base rate
LrInRange(st) ==
    /\ ~lrq.table[st].raised
    /\ 0 <= lrq.table[st].lr
    /\ lrq.table[st].lr <= lrq.lr

\* C14: for every schedule that passes construction with warmup + decay <= 1,
\* of either decay type, the rate does not decrease from one integer step
\* to the next within [0, t1], does not increase within [t2, t3], and is
\* within 0..base rate at every step >= 0.
C14_MonotoneAndBounded ==
    ReadValid =>
        /\ \A st \in 0..(FloorT1 - 1) : lrq.table[st].lr <= lrq.table[st + 1].lr
        /\ \A st \in FloorT2..(lrq.n_steps - 1) : lrq.table[st].lr >= lrq.table[st + 1].lr
        /\ \A st \in 0..(lrq.n_steps + 1) : LrInRange(st)

\* C14 amended: the rate does not decrease within [0, t1 - 1], nor from
\* t1 - 1 to t1 when t1 < total_steps; it does not increase within [t2, t3];
\* it is within 0..base rate at every step >= 0.
C14_MonotoneUnlessWarmupFillsRun ==
    ReadValid =>
        /\ \A st \in 0..(FloorT1 - 1) :
               (st + 1 < FloorT1 \/ FloorT1 < lrq.n_steps) =>
                   lrq.table[st].lr <= lrq.table[st + 1].lr
        /\ \A st \in FloorT2..(lrq.n_steps - 1) : lrq.table[st].lr >= lrq.table[st + 1].lr
        /\ \A st \in 0..(lrq.n_steps + 1) : LrInRange(st)

\* a cosine schedule that rises strictly over two warmup steps and falls
\* strictly over two decay steps
C14_Witness ==
    /\ ReadValid
    /\ lrq.decay_type = "cosine"
    /\ FloorT1 >= 2
    /\ FloorT2 + 2 <= lrq.n_steps
    /\ lrq.table[0].lr < lrq.table[1].lr
    /\ lrq.table[1].lr < lrq.table[2].lr
    /\ lrq.table[FloorT2].lr > lrq.table[FloorT2 + 1].lr
    /\ lrq.table[FloorT2 + 1].lr > lrq.table[FloorT2 + 2].lr

\* a schedule that passed construction (whatever its fractions), read at every step
ReadBuilt == lrq.pc = "read"

\* C17: for every schedule that passes construction and every step >= 0,
\* get_lr divides by zero neither by t1 nor by t3 - t2; when t1 = 0 there is
\* no warmup and the rate at step 0 is the base rate.
C17_NoDivisionByZero ==
    ReadBuilt =>
        /\ \A st \in 0..(lrq.n_steps + 1) :
               /\ ~lrq.table[st].raised
               /\ LrDivisor(lrq.sched, st) # 0
        /\ lrq.sched.t1 = 0 => lrq.table[0].lr = lrq.lr

\* C17 amended: no division by zero at any step >= 0; when t1 = 0 and
\* total_steps > 0 the rate at step 0 is the base rate.
C17_NoDivisionByZeroBaseRateIfAnyStep ==
    ReadBuilt =>
        /\ \A st \in 0..(lrq.n_steps + 1) :
               /\ ~lrq.table[st].raised
               /\ LrDivisor(lrq.sched, st) # 0
        /\ (lrq.sched.t1 = 0 /\ lrq.n_steps > 0) => lrq.table[0].lr = lrq.lr

\* a schedule without warmup steps and without constant phase (t1 = t2 = 0)
\* that starts its decay at the base rate
C17_Witness ==
    /\ ReadBuilt
    /\ lrq.sched.t1 = 0
    /\ lrq.sched.t2 = 0
    /\ lrq.warmupQ > 0
    /\ lrq.n_steps > 1
    /\ LrDivisor(lrq.sched, 0) = lrq.n_steps
    /\ lrq.table[0].lr = lrq.lr
    /\ lrq.table[1].lr < lrq.lr

\* the elements of a sequence
Range(q) == {q[i] : i \in DOMAIN q}

\* a sequence without repetition
NoRepeat(q) == \A i, j \in DOMAIN q : q[i] = q[j] => i = j

\* C18: in a cycle of the training stream no shard is visited twice and the
\* shards visited plus those still to visit are all the shards, so a cycle
\* that has none left has visited each exactly once; a visit with A tokens
\* after the offset uses no slice index twice, the indices used plus those
\* still to use are 0..floor(A / toks_per_batch) - 1, so a visit that has
\* none left has yielded exactly floor(A / toks_per_batch) batches; the
\* batch of index k holds the tokens [k * tpb, (k + 1) * tpb) of the view,
\* slices do not overlap and lie inside the shard, and a shard of S tokens
\* yields at most floor(S / toks_per_batch) batches.
C18_EachShardOnceEachSliceOnce ==
    ds.variant = "train" =>
        LET tpb == TokensPerBatch(ds.batch_size, ds.seq_len)
            A == view.len
            S == disk.size[view.shard]
            toVisit == {ds.shards[order[i]] : i \in DOMAIN order}
        IN  /\ sPc \in {"shards", "slices"} =>
                /\ NoRepeat(sHist.visited)
                /\ Len(order) + Len(sHist.visited) = Len(ds.shards)
                /\ Range(sHist.visited) \cup toVisit = Range(ds.shards)
                /\ Range(sHist.visited) \cap toVisit = {}
            /\ sPc = "slices" =>
                /\ A = S - view.offset
                /\ NoRepeat(sHist.used)
                /\ Range(sHist.used) \cap Range(slices) = {}
                /\ Range(sHist.used) \cup Range(slices) = 0..((A \div tpb) - 1)
                /\ Len(sHist.used) + Len(slices) = A \div tpb
                /\ sHist.visitYields = Len(sHist.used)
                /\ sHist.visitYields <= S \div tpb
                /\ \A k \in Range(sHist.used) :
                       /\ 0 <= k * tpb
                       /\ (k + 1) * tpb <= A
                       /\ view.offset + (k + 1) * tpb <= S
                /\ \A k1, k2 \in Range(sHist.used) :
                       k1 < k2 => (k1 + 1) * tpb <= k2 * tpb
            /\ batch # NoBatch =>
                /\ batch.slice = sHist.used[Len(sHist.used)]
                /\ batch.shard = view.shard
                /\ \A i \in 1..ds.batch_size, j \in 1..ds.seq_len :
                       LET p == batch.slice * tpb + (i - 1) * (ds.seq_len + 1) + (j - 1)
                       IN  /\ batch.slice * tpb <= p
                           /\ p + 1 < (batch.slice + 1) * tpb
                           /\ batch.tokens[i][j] = ShardTok(view.shard, view.offset + p)
                           /\ batch.labels[i][j] = ShardTok(view.shard, view.offset + p + 1)

\* the last shard of a cycle of two, mapped at a positive offset, has
\* yielded its two slices in shuffled order
C18_Witness ==
    /\ ds.variant = "train"
    /\ sPc = "slices"
    /\ order = <<>>
    /\ Len(sHist.visited) = 2
    /\ view.offset > 0
    /\ slices = <<>>
    /\ sHist.used = <<1, 0>>
    /\ sHist.visitYields = 2

\* C19: a log record is made at exactly the steps that are multiples of
\* the log interval, and the token count it carries is the number of input
\* tokens of the batches pulled and run through forward and backward so
\* far, counted up to the current optimizer step, with or without the
\* batches of that step itself.
C19_LoggedTokensArePulledTokens ==
    /\ {hist.logPoints[i].step : i \in DOMAIN hist.logPoints}
           = {st \in 0..(optim.steps - 1) : st % LogInterval = 0}
    /\ NoRepeat(hist.logPoints)
    /\ \A i \in DOMAIN hist.logPoints :
           LET rec == hist.logPoints[i]
           IN  \/ rec.logged = rec.pulled
               \/ rec.logged = rec.pulled - args.gradient_accumulation * BatchTokens(args)

\* C20: when the evaluation loop is over and total_loss is about to be
\* divided by n_batches, n_batches is greater than zero, and the division
\* does not end the run.
C20_EvalMeanIsDefined ==
    /\ (pc = "eval" /\ evalSt.n_batches = args.val_batches) => evalSt.n_batches > 0
    /\ pc # "crashed"

\* C16: quantize_model raises for every name that is given and is not one
\* of the recognized names, and then the model is as it was and no
\* transformation was called; with no name it returns and the model is as
\* it was; with a recognized name it returns after exactly one
\* weight-quantization transformation, the one the name selects, applied
\* to the model.
C16_QuantizeModelDispatch ==
    qm.pc \in {"returned", "ValueError"} =>
        LET recognized == qm.name.given /\ qm.name.name \in
                {"int8", "int8_activation_int8", "int8_activation_int8_sr",
                 "int8_activation_int8_grad_weight_int8",
                 "int8_activation_int8_sr_grad_weight_int8_sr", "int4"}
        IN  /\ (qm.name.given /\ ~recognized) =>
                (qm.pc = "ValueError" /\ qm.layers = qm.orig /\ qm.calls = <<>>)
            /\ ~qm.name.given =>
                (qm.pc = "returned" /\ qm.layers = qm.orig /\ qm.calls = <<>>)
            /\ recognized =>
                /\ qm.pc = "returned"
                /\ Len(qm.calls) = 1
                /\ qm.calls[1].fn = (IF qm.name.name = "int4" THEN "int4" ELSE "int8")
                /\ DOMAIN qm.layers = DOMAIN qm.orig
                /\ \A i \in DOMAIN qm.orig :
                       /\ qm.layers[i].kind = qm.orig[i].kind
                       /\ qm.orig[i].kind = "linear" => qm.layers[i].weight = qm.calls[1]
                       /\ qm.orig[i].kind # "linear" => qm.layers[i] = qm.orig[i]

\* an unknown name has raised and left a model with a linear sublayer as
\* it was
C16_Witness ==
    /\ qm.pc = "ValueError"
    /\ qm.name = Name("int8_sr")
    /\ \E i \in DOMAIN qm.orig : qm.orig[i].kind = "linear"
    /\ qm.layers = qm.orig
    /\ qm.calls = <<>>

\* the configuration errors of a run: batch_size not divisible by
\* gradient_accumulation, schedule boundaries out of order or unknown decay
\* type, unrecognized quantization name, no shard in the dataset directory
ConfigurationError(a) ==
    \/ a.batch_size % a.gradient_accumulation # 0
    \/ /\ a.lr_schedule_kwargs.given
       /\ \/ (a.n_steps * a.lr_schedule_kwargs.warmupQ) \div Quarters
                > (a.n_steps * (Quarters - a.lr_schedule_kwargs.decayQ)) \div Quarters
          \/ a.lr_schedule_kwargs.decay_type \notin {"linear", "cosine"}
    \/ a.quantization \in {Name("fp8")}
    \/ a.n_shards = 0

\* C15: a run whose configuration has an error raises it before anything
\* is allocated: the model is never built, the optimizer never created, the
\* data stream and the logging sink never opened, and the training loop is
\* never entered.
C15_ConfigErrorsBeforeResources ==
    (ini.pc # "idle" /\ ConfigurationError(ini.args)) =>
        /\ ini.built = {}
        /\ ini.pc # "loop"

====
